---- MODULE Spec2Model ----
(***************************************************************************)
(* A model of src/Either.ts: the two-variant tagged union Either<L, R>,    *)
(* its constructors left / right, the discriminators isLeft / isRight,     *)
(* the eliminator fold and the Right-biased transformation map.            *)
(*                                                                         *)
(* Either objects live in a heap (a sequence of records; an object's       *)
(* reference is its index), so that "returns the original object" and      *)
(* "returns a new object" are different outcomes, and so that a mutation   *)
(* of an object would be visible to every holder of its reference.         *)
(* Caller-supplied functions are functions over the payload domain Val;    *)
(* every invocation of one is appended to the call's `calls` log, which    *)
(* plays the part of a call-count spy.                                     *)
(***************************************************************************)
EXTENDS Integers, Sequences, FiniteSets

VARIABLES heap, hist, pc, loc

vars == <<heap, hist, pc, loc>>

(* ------------------------------ bounds --------------------------------- *)

\* numeric payloads are 0 .. MaxVal
MaxVal == 1
\* objects the sequential API specification may allocate
MaxObjs == 3
\* length of a chain of map calls in the chain specification
MaxMaps == 3
\* objects the concurrent specification may allocate
MaxConcObjs == 2
\* tasks of the concurrent specification
NumTasks == 2

(* ------------------------- payloads and callbacks ---------------------- *)

\* the null / undefined-like payload, encoded just above the numeric range
Nullish == MaxVal + 1

Val == (0 .. MaxVal) \cup {Nullish}

\* x => x
Id == [x \in Val |-> x]

\* n => n + 1, wrapping on the bounded numeric range; a nullish argument gives 0
Inc == [x \in Val |-> IF x = Nullish THEN 0 ELSE (x + 1) % (MaxVal + 1)]

\* _ => undefined
ToNullish == [x \in Val |-> Nullish]

\* x => g(f(x))
Compose(g, f) == [x \in Val |-> g[f[x]]]

FnBase == {Id, Inc, ToNullish}

Fn == FnBase \cup {Compose(g, f) : g \in FnBase, f \in FnBase}

\* the callbacks the concurrent tasks pass: the ones that are not the identity
FnConc == {Inc, ToNullish}

(* ------------------------------ Either.ts ------------------------------ *)

leftWrongTag(value) == [_tag |-> "Right", value |-> value]

\* left = (value) => ({ _tag: 'Left', value })
left(value) == [_tag |-> "Left", value |-> value]

\* right = (value) => ({ _tag: 'Right', value })
right(value) == [_tag |-> "Right", value |-> value]

\* isLeft = (e) => e._tag === 'Left'
isLeft(e) == e._tag = "Left"

isRightCopyPaste(e) == e._tag = "Left"

\* isRight = (e) => e._tag === 'Right'
isRight(e) == e._tag = "Right"

\* case 'Left': return onLeft(e.value);
foldLeft(onLeft, e) ==
  [ret |-> onLeft[e.value], calls |-> <<[fn |-> "onLeft", arg |-> e.value]>>]

\* case 'Right': return onRight(e.value);
foldRight(onRight, e) ==
  [ret |-> onRight[e.value], calls |-> <<[fn |-> "onRight", arg |-> e.value]>>]

foldCaseBoth(tag, onLeft, onRight, e) ==
  IF tag = "Left"
    THEN [ret |-> onLeft[e.value],
          calls |-> <<[fn |-> "onLeft", arg |-> e.value],
                      [fn |-> "onRight", arg |-> e.value]>>]
    ELSE foldRight(onRight, e)

\* the switch of fold, entered with the value `tag` read from e._tag; a switch
\* that matches no case falls off the end of the function (undefined)
foldCase(tag, onLeft, onRight, e) ==
  CASE tag = "Left" -> foldLeft(onLeft, e)
    [] tag = "Right" -> foldRight(onRight, e)
    [] OTHER -> [ret |-> Nullish, calls |-> <<>>]

\* fold(onLeft, onRight)(e)
fold(onLeft, onRight, e) == foldCase(e._tag, onLeft, onRight, e)

mapThenNoApply(f, a, h) ==
  [heap |-> Append(h, right(h[a].value)), ret |-> Len(h) + 1, calls |-> <<>>]

mapThenLeft(f, a, h) ==
  [heap |-> Append(h, left(f[h[a].value])), ret |-> Len(h) + 1,
   calls |-> <<[fn |-> "f", arg |-> h[a].value]>>]

mapThenTwice(f, a, h) ==
  [heap |-> Append(h, right(f[f[h[a].value]])), ret |-> Len(h) + 1,
   calls |-> <<[fn |-> "f", arg |-> h[a].value],
               [fn |-> "f", arg |-> f[h[a].value]]>>]

mapThenInPlace(f, a, h) ==
  [heap |-> [h EXCEPT ![a].value = f[h[a].value]], ret |-> a,
   calls |-> <<[fn |-> "f", arg |-> h[a].value]>>]

\* the true arm of map's conditional: right(f(e.value)), a new object
mapThen(f, a, h) ==
  [heap |-> Append(h, right(f[h[a].value])), ret |-> Len(h) + 1,
   calls |-> <<[fn |-> "f", arg |-> h[a].value]>>]

mapElseApply(f, a, h) ==
  [heap |-> Append(h, left(f[h[a].value])), ret |-> Len(h) + 1,
   calls |-> <<[fn |-> "f", arg |-> h[a].value]>>]

mapElseInPlace(f, a, h) ==
  [heap |-> [h EXCEPT ![a].value = f[h[a].value]], ret |-> a, calls |-> <<>>]

\* the false arm of map's conditional: e itself, the same reference
mapElse(f, a, h) == [heap |-> h, ret |-> a, calls |-> <<>>]

\* map's conditional, entered with the value `test` of isRight(e)
mapArm(test, f, a, h) == IF test THEN mapThen(f, a, h) ELSE mapElse(f, a, h)

\* map(f)(e), e the object at reference a of heap h
map(f, a, h) == mapArm(isRight(h[a]), f, a, h)

(* ------------------------------- state --------------------------------- *)

Task == 1 .. NumTasks

Refs == DOMAIN heap

\* the record of one completed call: the operation, the functions and the
\* argument it was given (a payload for the constructors, a reference for the
\* rest), the Either the argument referred to when the call began, the value
\* returned and the invocations of caller-supplied functions it made
Call(op, fns, arg, was, ret, calls) ==
  [op |-> op, fns |-> fns, arg |-> arg, was |-> was, ret |-> ret, calls |-> calls]

NoEither == [_tag |-> "none", value |-> Nullish]

\* a task's locals when it is in no call
Idle ==
  [op |-> "none", fns |-> <<>>, arg |-> 0, test |-> FALSE, tag |-> "none",
   seen |-> NoEither, ret |-> 0, expect |-> 0]

\* no object, no call made, every task idle
Init ==
  /\ heap = <<>>
  /\ hist = <<>>
  /\ pc = [t \in Task |-> "idle"]
  /\ loc = [t \in Task |-> Idle]

(* --------------- the API, one whole call per step (Spec) --------------- *)

last == hist[Len(hist)]

CallLeft(v) ==
  /\ Len(heap) < MaxObjs
  /\ heap' = Append(heap, left(v))
  /\ hist' = <<Call("left", <<>>, v, NoEither, Len(heap) + 1, <<>>)>>
  /\ UNCHANGED <<pc, loc>>

CallRight(v) ==
  /\ Len(heap) < MaxObjs
  /\ heap' = Append(heap, right(v))
  /\ hist' = <<Call("right", <<>>, v, NoEither, Len(heap) + 1, <<>>)>>
  /\ UNCHANGED <<pc, loc>>

CallIsLeft(a) ==
  /\ hist' = <<Call("isLeft", <<>>, a, heap[a], isLeft(heap[a]), <<>>)>>
  /\ UNCHANGED <<heap, pc, loc>>

CallIsRight(a) ==
  /\ hist' = <<Call("isRight", <<>>, a, heap[a], isRight(heap[a]), <<>>)>>
  /\ UNCHANGED <<heap, pc, loc>>

CallFold(onLeft, onRight, a) ==
  LET r == fold(onLeft, onRight, heap[a]) IN
  /\ hist' = <<Call("fold", <<onLeft, onRight>>, a, heap[a], r.ret, r.calls)>>
  /\ UNCHANGED <<heap, pc, loc>>

CallMap(f, a) ==
  LET r == map(f, a, heap) IN
  /\ Len(r.heap) <= MaxObjs
  /\ heap' = r.heap
  /\ hist' = <<Call("map", <<f>>, a, heap[a], r.ret, r.calls)>>
  /\ UNCHANGED <<pc, loc>>

Next ==
  \/ \E v \in Val : CallLeft(v)
  \/ \E v \in Val : CallRight(v)
  \/ \E a \in Refs : CallIsLeft(a)
  \/ \E a \in Refs : CallIsRight(a)
  \/ \E onLeft \in FnBase, onRight \in FnBase, a \in Refs : CallFold(onLeft, onRight, a)
  \/ \E f \in FnBase, a \in Refs : CallMap(f, a)

Spec == Init /\ [][Next]_vars

(* --------------------- properties of the API (Spec) -------------------- *)

\* C1: for every payload v, nullish included, the object left(v) returns is
\* Left and not Right to the discriminators, and the object right(v) returns
\* is Right and not Left.
C1_ConstructorsTagged ==
  hist # <<>> =>
    /\ last.op = "left" =>
         isLeft(heap[last.ret]) = TRUE /\ isRight(heap[last.ret]) = FALSE
    /\ last.op = "right" =>
         isRight(heap[last.ret]) = TRUE /\ isLeft(heap[last.ret]) = FALSE

C1_Witness ==
  /\ hist # <<>>
  /\ last.op = "left"
  /\ last.arg = Nullish
  /\ \E a \in Refs : heap[a] = right(Nullish)

\* C2: every Either built by left, right and map satisfies exactly one of
\* isLeft and isRight, and a discriminator call returns the negation of what
\* the other discriminator says of the same object.
C2_ExactlyOneVariant ==
  /\ \A a \in Refs : isRight(heap[a]) = ~isLeft(heap[a])
  /\ hist # <<>> /\ last.op = "isLeft" => last.ret = ~isRight(heap[last.arg])
  /\ hist # <<>> /\ last.op = "isRight" => last.ret = ~isLeft(heap[last.arg])

C2_Witness ==
  /\ Len(heap) = 3
  /\ isLeft(heap[1])
  /\ isRight(heap[2])
  /\ hist # <<>>
  /\ last.op = "map"
  /\ last.arg = 2
  /\ last.ret = 3

\* C3: fold on left(v) returns onLeft(v) and invokes onLeft once and onRight
\* never; fold on right(v) returns onRight(v) and invokes onRight once and
\* onLeft never.
C3_FoldOneBranch ==
  hist # <<>> /\ last.op = "fold" =>
    LET v == last.was.value IN
    /\ last.was = left(v) =>
         /\ last.ret = last.fns[1][v]
         /\ last.calls = <<[fn |-> "onLeft", arg |-> v]>>
    /\ last.was = right(v) =>
         /\ last.ret = last.fns[2][v]
         /\ last.calls = <<[fn |-> "onRight", arg |-> v]>>

C3_Witness ==
  /\ hist # <<>>
  /\ last.op = "fold"
  /\ isLeft(last.was)
  /\ last.fns[1][last.was.value] # last.fns[2][last.was.value]
  /\ last.ret = last.fns[1][last.was.value]

\* C4: map(f) on right(v) returns an object equal to right(f(v)).
C4_MapRight ==
  hist # <<>> /\ last.op = "map" =>
    \A v \in Val :
      last.was = right(v) => heap[last.ret] = right(last.fns[1][v])

C4_Witness ==
  /\ hist # <<>>
  /\ last.op = "map"
  /\ isRight(last.was)
  /\ last.fns[1][last.was.value] # last.was.value
  /\ heap[last.ret].value # last.was.value

\* C5: map(f) on left(v) returns an object equal to left(v) and does not
\* invoke f.
C5_MapLeft ==
  hist # <<>> /\ last.op = "map" =>
    \A v \in Val :
      last.was = left(v) => heap[last.ret] = left(v) /\ last.calls = <<>>

C5_Witness ==
  /\ hist # <<>>
  /\ last.op = "map"
  /\ isLeft(last.was)
  /\ last.fns[1][last.was.value] # last.was.value
  /\ heap[last.ret] = last.was

\* C6: map(x => x) on any Either returns an object equal by value (tag and
\* payload) to its argument.
C6_MapIdentity ==
  hist # <<>> /\ last.op = "map" /\ last.fns = <<Id>> =>
    heap[last.ret] = last.was

C6_Witness ==
  /\ hist # <<>>
  /\ last.op = "map"
  /\ last.fns = <<Id>>
  /\ isRight(last.was)
  /\ last.ret # last.arg
  /\ heap[last.ret] = heap[last.arg]

\* C9: no call changes the tag or payload of an object that existed before
\* it, and map on a Right returns a reference to an object that did not
\* exist before the call.
C9_NoMutation ==
  [][/\ \A a \in Refs : heap'[a] = heap[a]
     /\ hist'[Len(hist')].op = "map" /\ isRight(hist'[Len(hist')].was) =>
          hist'[Len(hist')].ret \notin Refs]_vars

C9_Witness ==
  /\ hist # <<>>
  /\ last.op = "map"
  /\ isRight(last.was)
  /\ last.ret # last.arg
  /\ heap[last.arg] = last.was
  /\ heap[last.ret] # last.was

(* ------------- chains of map calls on one input (SpecChain) ------------ *)

\* the Either values the constructors build
Eithers == {left(v) : v \in Val} \cup {right(v) : v \in Val}

\* the state after one constructor call: its object and its record
InitChain ==
  /\ \E v \in Val :
       \/ heap = <<left(v)>> /\ hist = <<Call("left", <<>>, v, NoEither, 1, <<>>)>>
       \/ heap = <<right(v)>> /\ hist = <<Call("right", <<>>, v, NoEither, 1, <<>>)>>
  /\ pc = [t \in Task |-> "idle"]
  /\ loc = [t \in Task |-> Idle]

\* one more map call, on the input or on the result of an earlier map call;
\* the whole history of calls is kept
ChainMap(f, a) ==
  LET r == map(f, a, heap) IN
  /\ Len(hist) < 1 + MaxMaps
  /\ heap' = r.heap
  /\ hist' = Append(hist, Call("map", <<f>>, a, heap[a], r.ret, r.calls))
  /\ UNCHANGED <<pc, loc>>

NextChain == \E f \in Fn, a \in Refs : ChainMap(f, a)

SpecChain == InitChain /\ [][NextChain]_vars

\* C7: whenever map(f) was applied to e, map(g) to its result, and
\* map(x => g(f(x))) to e, the last two results are equal by value.
C7_MapComposition ==
  \A i \in DOMAIN hist, j \in DOMAIN hist, k \in DOMAIN hist :
    /\ hist[i].op = "map" /\ hist[j].op = "map" /\ hist[k].op = "map"
    /\ i < j
    /\ hist[j].arg = hist[i].ret
    /\ hist[k].arg = hist[i].arg
    /\ hist[k].fns[1] = Compose(hist[j].fns[1], hist[i].fns[1])
    => heap[hist[j].ret] = heap[hist[k].ret]

C7_Witness ==
  /\ Len(hist) = 4
  /\ hist[1].op = "right"
  /\ hist[2].arg = 1 /\ hist[2].fns = <<ToNullish>>
  /\ hist[3].arg = hist[2].ret /\ hist[3].fns = <<Inc>>
  /\ hist[4].arg = 1 /\ hist[4].fns = <<Compose(Inc, ToNullish)>>
  /\ hist[4].ret # hist[3].ret
  /\ heap[hist[4].ret] = right(0)
  /\ heap[hist[3].ret] = right(0)

\* C8: in a chain of map calls that starts from left(v), no call invokes its
\* function and every call returns a Left whose payload is v.
C8_LeftChain ==
  hist[1].op = "left" =>
    \A i \in 2 .. Len(hist) :
      /\ hist[i].calls = <<>>
      /\ heap[hist[i].ret] = left(hist[1].arg)

C8_Witness ==
  /\ Len(hist) = 4
  /\ hist[1].op = "left"
  /\ hist[1].arg = 0
  /\ hist[2].fns = <<Inc>>
  /\ hist[3].fns = <<ToNullish>> /\ hist[3].arg = hist[2].ret
  /\ hist[4].fns = <<Inc>> /\ hist[4].arg = hist[3].ret
  /\ heap[hist[4].ret] = left(0)

(* -------- tasks sharing objects, one read per step (SpecConc) ---------- *)

\* the state after one constructor call, every task idle
InitConc ==
  /\ \E e \in Eithers : heap = <<e>>
  /\ hist = <<>>
  /\ pc = [t \in Task |-> "idle"]
  /\ loc = [t \in Task |-> Idle]

\* isLeft(e): a single read of e._tag
TaskIsLeft(t, a) ==
  /\ pc[t] = "idle"
  /\ pc' = [pc EXCEPT ![t] = "done"]
  /\ loc' = [loc EXCEPT ![t] =
       [Idle EXCEPT !.op = "isLeft", !.arg = a, !.seen = heap[a],
                    !.ret = isLeft(heap[a]), !.expect = isLeft(heap[a])]]
  /\ UNCHANGED <<heap, hist>>

\* isRight(e): a single read of e._tag
TaskIsRight(t, a) ==
  /\ pc[t] = "idle"
  /\ pc' = [pc EXCEPT ![t] = "done"]
  /\ loc' = [loc EXCEPT ![t] =
       [Idle EXCEPT !.op = "isRight", !.arg = a, !.seen = heap[a],
                    !.ret = isRight(heap[a]), !.expect = isRight(heap[a])]]
  /\ UNCHANGED <<heap, hist>>

\* fold, first step: switch (e._tag) reads the tag; `expect` is what the whole
\* call returns when run alone on the heap as it is now
TaskFoldSwitch(t, onLeft, onRight, a) ==
  /\ pc[t] = "idle"
  /\ pc' = [pc EXCEPT ![t] = "case"]
  /\ loc' = [loc EXCEPT ![t] =
       [Idle EXCEPT !.op = "fold", !.fns = <<onLeft, onRight>>, !.arg = a,
                    !.seen = heap[a], !.tag = heap[a]._tag,
                    !.expect = fold(onLeft, onRight, heap[a]).ret]]
  /\ UNCHANGED <<heap, hist>>

\* fold, second step: the selected case reads e.value and calls its handler
TaskFoldCase(t) ==
  /\ pc[t] = "case"
  /\ pc' = [pc EXCEPT ![t] = "done"]
  /\ loc' = [loc EXCEPT ![t].ret =
       foldCase(loc[t].tag, loc[t].fns[1], loc[t].fns[2], heap[loc[t].arg]).ret]
  /\ UNCHANGED <<heap, hist>>

\* map, first step: isRight(e) reads the tag; `expect` is the Either the whole
\* call returns when run alone on the heap as it is now
TaskMapTest(t, f, a) ==
  /\ pc[t] = "idle"
  /\ pc' = [pc EXCEPT ![t] = "arm"]
  /\ loc' = [loc EXCEPT ![t] =
       [Idle EXCEPT !.op = "map", !.fns = <<f>>, !.arg = a,
                    !.seen = heap[a], !.test = isRight(heap[a]),
                    !.expect = map(f, a, heap).heap[map(f, a, heap).ret]]]
  /\ UNCHANGED <<heap, hist>>

\* map, second step: the selected arm of the conditional
TaskMapArm(t) ==
  LET r == mapArm(loc[t].test, loc[t].fns[1], loc[t].arg, heap) IN
  /\ pc[t] = "arm"
  /\ Len(r.heap) <= MaxConcObjs
  /\ pc' = [pc EXCEPT ![t] = "done"]
  /\ heap' = r.heap
  /\ loc' = [loc EXCEPT ![t].ret = r.ret]
  /\ UNCHANGED hist

\* the caller takes the result; the task is free for another call
TaskReturn(t) ==
  /\ pc[t] = "done"
  /\ pc' = [pc EXCEPT ![t] = "idle"]
  /\ loc' = [loc EXCEPT ![t] = Idle]
  /\ UNCHANGED <<heap, hist>>

NextConc ==
  \E t \in Task :
    \/ \E a \in Refs : TaskIsLeft(t, a)
    \/ \E a \in Refs : TaskIsRight(t, a)
    \/ \E onLeft \in FnConc, onRight \in FnConc, a \in Refs :
         TaskFoldSwitch(t, onLeft, onRight, a)
    \/ TaskFoldCase(t)
    \/ \E f \in FnConc, a \in Refs : TaskMapTest(t, f, a)
    \/ TaskMapArm(t)
    \/ TaskReturn(t)

SpecConc == InitConc /\ [][NextConc]_vars

\* the value a finished call returned: the Either a map call's reference
\* leads to, the plain result of the other calls
Returned(t) == IF loc[t].op = "map" THEN heap[loc[t].ret] ELSE loc[t].ret

\* C10: under every interleaving of the tasks' steps, the object a call was
\* given still has the tag and payload it had when the call began, and a
\* finished call has returned what it returns when run alone.
C10_ConcurrentCalls ==
  \A t \in Task :
    /\ pc[t] # "idle" => heap[loc[t].arg] = loc[t].seen
    /\ pc[t] = "done" => Returned(t) = loc[t].expect

C10_Witness ==
  /\ pc[1] = "case"
  /\ pc[2] = "done"
  /\ loc[1].arg = 1
  /\ loc[2].arg = 1
  /\ loc[2].op = "map"
  /\ loc[2].fns = <<Inc>>
  /\ isRight(loc[2].seen)
  /\ heap[loc[2].ret] # heap[1]

====
